---- MODULE Spec2Model ----
(***************************************************************************)
(* parse-stable-abi.py: reads the Stable ABI manifest from standard input  *)
(* line by line and prints a module-definition file (LIBRARY / EXPORTS /   *)
(* one line per symbol), then asserts that at least 859 symbols were       *)
(* counted.                                                                *)
(*                                                                         *)
(* Text is modelled as sequences of one-character strings, so that         *)
(* str.startswith and str.split are computed character by character.       *)
(***************************************************************************)
EXTENDS Integers, Sequences, FiniteSets, TLC

VARIABLES
    stdin,      \* the manifest: the sequence of lines sys.stdin yields
    pos,        \* number of lines the for loop has fetched so far
    out,        \* standard output: one element per print() call
    count,      \* the script's counter
    pc,         \* "READING", "DONE", "FAILED" (AssertionError), "CRASHED" (IndexError)
    exitcode    \* {} while the process runs, then {its exit status}

vars == <<stdin, pos, out, count, pc, exitcode>>

----------------------------------------------------------------------------
(* Bounds and constants *)

\* longest freely composed manifest
MaxLines == 3

\* the minimum count of the final assertion
Threshold == 859

----------------------------------------------------------------------------
(* Text *)

kw_function == <<"f", "u", "n", "c", "t", "i", "o", "n">>
kw_data == <<"d", "a", "t", "a">>
DATA_suffix == <<" ", "D", "A", "T", "A">>

LIBRARY_line == <<"L", "I", "B", "R", "A", "R", "Y", " ",
                  "p", "y", "t", "h", "o", "n", "3", ".", "d", "l", "l">>
EXPORTS_line == <<"E", "X", "P", "O", "R", "T", "S">>

\* the characters str.split() with no argument separates on
Whitespace == {" ", "\t", "\n"}

\* str.startswith(prefix)
startswith(s, prefix) ==
    /\ Len(s) >= Len(prefix)
    /\ SubSeq(s, 1, Len(prefix)) = prefix

\* s ends with suffix (used to tell DATA lines of the output from the others)
EndsWith(s, suffix) ==
    /\ Len(s) >= Len(suffix)
    /\ SubSeq(s, Len(s) - Len(suffix) + 1, Len(s)) = suffix

\* str.split(): the maximal runs of non-whitespace characters, in order
RECURSIVE splitFrom(_, _, _, _)
splitFrom(s, i, word, words) ==
    IF i > Len(s)
    THEN IF word = <<>> THEN words ELSE Append(words, word)
    ELSE IF s[i] \in Whitespace
         THEN splitFrom(s, i + 1, <<>>,
                        IF word = <<>> THEN words ELSE Append(words, word))
         ELSE splitFrom(s, i + 1, Append(word, s[i]), words)

split(s) == splitFrom(s, 1, <<>>, <<>>)

\* print(x): one more line on standard output
print(o, text) == Append(o, text)

\* the two print calls before the loop
\* (variant: the two lines in the other order)
PrintedHeaderSwapped == print(print(<<>>, EXPORTS_line), LIBRARY_line)

PrintedHeader == print(print(<<>>, LIBRARY_line), EXPORTS_line)

----------------------------------------------------------------------------
(* Manifests *)

L_function == kw_function \o <<" ", "a", "\n">>
L_data == kw_data \o <<" ", "b", "\n">>
L_data_rest == kw_data \o <<" ", "a", " ", "x", "\n">>
L_comment == <<"#", " ", "c", "o", "m", "m", "e", "n", "t", "\n">>
L_unknown == <<"u", "n", "k", "n", "o", "w", "n", " ", "f", "o", "o", " ",
               "b", "a", "r", "\n">>
L_empty == <<"\n">>
L_bare == kw_function \o <<"\n">>
L_functional == kw_function \o <<"a", "l", " ", "c", "\n">>
L_indented == <<" ">> \o kw_function \o <<" ", "d", "\n">>

Alphabet ==
    {L_function, L_data, L_data_rest, L_comment, L_unknown, L_empty,
     L_bare, L_functional, L_indented}

ShortManifests == UNION {[1..n -> Alphabet] : n \in 0..MaxLines}

Padding(n) == [i \in 1..n |-> L_data]

Tails == {<<>>, <<L_bare>>, <<L_function>>}

LongManifests ==
    {Padding(n) \o t : n \in {Threshold - 1, Threshold}, t \in Tails}

Manifests == ShortManifests \cup LongManifests

----------------------------------------------------------------------------
(* The script *)

Init ==
    /\ stdin \in Manifests
    /\ pos = 0
    /\ out = PrintedHeader
    /\ count = 0
    /\ pc = "READING"
    /\ exitcode = {}

\* the loop has another line to fetch
HasLine == pc = "READING" /\ pos < Len(stdin)

line == stdin[pos + 1]

Matches(l) == startswith(l, kw_function) \/ startswith(l, kw_data)

\* is_data as the if/elif sets it (only read when Matches)
is_data(l) == ~startswith(l, kw_function)

\* else: continue
\* (variant: the skipped line is counted)
SkipCounting ==
    /\ HasLine
    /\ ~Matches(line)
    /\ pos' = pos + 1
    /\ count' = count + 1
    /\ UNCHANGED <<stdin, out, pc, exitcode>>

Skip ==
    /\ HasLine
    /\ ~Matches(line)
    /\ pos' = pos + 1
    /\ UNCHANGED <<stdin, out, count, pc, exitcode>>

IsDataLine(text) == EndsWith(text, DATA_suffix)

IsFunctionLine(text) == ~EndsWith(text, DATA_suffix)

\* count += 1; name = line.split()[1]; print
\* (variant: the count is not kept)
EmitUncounted ==
    /\ HasLine
    /\ Matches(line)
    /\ Len(split(line)) >= 2
    /\ pos' = pos + 1
    /\ LET name == split(line)[2]
       IN out' = IF is_data(line)
                 THEN print(out, name \o DATA_suffix)
                 ELSE print(out, name)
    /\ UNCHANGED <<stdin, count, pc, exitcode>>

\* (variant: functions are written before the data lines, as a table-driven
\* reader would order them)
EmitFunctionsFirst ==
    /\ HasLine
    /\ Matches(line)
    /\ Len(split(line)) >= 2
    /\ pos' = pos + 1
    /\ count' = count + 1
    /\ LET name == split(line)[2]
           body == SubSeq(out, 3, Len(out))
       IN out' = IF is_data(line)
                 THEN print(out, name \o DATA_suffix)
                 ELSE SubSeq(out, 1, 2) \o SelectSeq(body, IsFunctionLine)
                          \o <<name>> \o SelectSeq(body, IsDataLine)
    /\ UNCHANGED <<stdin, pc, exitcode>>

Emit ==
    /\ HasLine
    /\ Matches(line)
    /\ Len(split(line)) >= 2
    /\ pos' = pos + 1
    /\ count' = count + 1
    /\ LET name == split(line)[2]
       IN out' = IF is_data(line)
                 THEN print(out, name \o DATA_suffix)
                 ELSE print(out, name)
    /\ UNCHANGED <<stdin, pc, exitcode>>

\* count += 1; line.split()[1] raises IndexError: the interpreter exits with 1
RaiseIndexError ==
    /\ HasLine
    /\ Matches(line)
    /\ Len(split(line)) < 2
    /\ pos' = pos + 1
    /\ count' = count + 1
    /\ pc' = "CRASHED"
    /\ exitcode' = {1}
    /\ UNCHANGED <<stdin, out>>

\* assert count >= 859, passing: the script ends, exit status 0
AssertPass ==
    /\ pc = "READING"
    /\ pos = Len(stdin)
    /\ count >= Threshold
    /\ pc' = "DONE"
    /\ exitcode' = {0}
    /\ UNCHANGED <<stdin, pos, out, count>>

\* assert count >= 859, failing: AssertionError, exit status 1
\* (variant: the assertion sits inside the loop)
AssertFailEarly ==
    /\ pc = "READING"
    /\ count < Threshold
    /\ pc' = "FAILED"
    /\ exitcode' = {1}
    /\ UNCHANGED <<stdin, pos, out, count>>

AssertFail ==
    /\ pc = "READING"
    /\ pos = Len(stdin)
    /\ count < Threshold
    /\ pc' = "FAILED"
    /\ exitcode' = {1}
    /\ UNCHANGED <<stdin, pos, out, count>>

Next == Skip \/ Emit \/ RaiseIndexError \/ AssertPass \/ AssertFail

Spec == Init /\ [][Next]_vars

----------------------------------------------------------------------------
(* Vocabulary of the properties *)

Exited == exitcode # {}

\* the lines of the output after the two header lines
SymbolLines(o) == SubSeq(o, 3, Len(o))

\* the lines the loop has fetched so far
Consumed == SubSeq(stdin, 1, pos)

\* the first whitespace-delimited token of a line, <<>> when it has none
FirstToken(l) == IF split(l) = <<>> THEN <<>> ELSE split(l)[1]

\* a line the reader turns into an entry: keyword prefix and a name after it
IsEntryLine(l) == Matches(l) /\ Len(split(l)) >= 2

\* the output line of an entry line: its second token, " DATA" after it for data
ExportLine(l) ==
    IF startswith(l, kw_data)
    THEN split(l)[2] \o DATA_suffix
    ELSE split(l)[2]

Occurrences(s, x) == Cardinality({i \in 1..Len(s) : s[i] = x})

EntryCount(s) == Cardinality({i \in 1..Len(s) : IsEntryLine(s[i])})

\* this step fetched a line
FetchedLine == pos' = pos + 1

\* this step wrote one symbol line, without / with the DATA suffix
ProducedFunction ==
    /\ Len(out') = Len(out) + 1
    /\ ~EndsWith(out'[Len(out')], DATA_suffix)

ProducedData ==
    /\ Len(out') = Len(out) + 1
    /\ EndsWith(out'[Len(out')], DATA_suffix)

\* this step dropped the line and the loop goes on
Skipped == out' = out /\ count' = count /\ pc' = "READING"

----------------------------------------------------------------------------
(* Properties *)

\* C1: whenever the run has exited, the exit status is 0 if and only if the
\* manifest produced at least 859 entries (symbol lines of the output).
C1_ThresholdEnforcement ==
    Exited => (exitcode = {0} <=> Len(SymbolLines(out)) >= Threshold)

\* C2: when the run has exited, every entry line of the input has its output
\* line (name, or name and " DATA") as many times as the input holds entries
\* with that output line, repeated names included.
C2_Completeness ==
    Exited =>
        \A j \in 1..Len(stdin) :
            IsEntryLine(stdin[j]) =>
                Occurrences(SymbolLines(out), ExportLine(stdin[j]))
                    = Cardinality({k \in 1..Len(stdin) :
                                      /\ IsEntryLine(stdin[k])
                                      /\ ExportLine(stdin[k]) = ExportLine(stdin[j])})

\* C3: a fetched line with a name after its first token produces a Function
\* entry iff its first token is exactly "function", a Data entry iff its first
\* token is exactly "data", and a line with any other first token is skipped.
C3_LineClassification ==
    [][(FetchedLine /\ Len(split(stdin[pos'])) # 1) =>
          LET first == FirstToken(stdin[pos'])
          IN /\ (first = kw_function) <=> ProducedFunction
             /\ (first = kw_data) <=> ProducedData
             /\ (first \notin {kw_function, kw_data}) => Skipped]_vars

\* C4: fetching a line, whatever it holds, never ends the run: the loop goes
\* on, and only the final assertion can fail the run.
C4_MalformedLinesNeverFail ==
    [][FetchedLine => pc' = "READING" /\ exitcode' = {}]_vars

\* C5: the symbol lines of the output are the output lines of the entry lines
\* fetched so far, in the order of the input.
C5_OrderPreserved ==
    LET entries == SelectSeq(Consumed, IsEntryLine)
    IN SymbolLines(out) = [i \in 1..Len(entries) |-> ExportLine(entries[i])]

C5_Witness ==
    /\ pos = 3
    /\ IsEntryLine(stdin[1])
    /\ ~IsEntryLine(stdin[2])
    /\ IsEntryLine(stdin[3])
    /\ is_data(stdin[1]) /\ ~is_data(stdin[3])
    /\ Len(out) = 4
    /\ out[3] # out[4]

\* C6: the output always starts with "LIBRARY python3.dll" and then "EXPORTS".
C6_HeaderInvariance ==
    /\ Len(out) >= 2
    /\ out[1] = LIBRARY_line
    /\ out[2] = EXPORTS_line

C6_Witness ==
    /\ Len(out) >= 4
    /\ Exited

\* C7: fetching "# comment", "unknown foo bar" or an empty line leaves the
\* output and the count as they were, and the loop goes on.
C7_LineFormTolerance ==
    [][(FetchedLine /\ stdin[pos'] \in {L_comment, L_unknown, L_empty})
          => Skipped]_vars

C7_Witness ==
    /\ pos >= 2
    /\ stdin[pos] \in {L_comment, L_unknown, L_empty}
    /\ count >= 1
    /\ pc = "READING"

\* C8: when the assertion fails, or passes, every line of the input has been
\* fetched and the output holds the header and one line per entry of the whole
\* input.
C8_IntegrityCheckLast ==
    pc \in {"FAILED", "DONE"} =>
        /\ pos = Len(stdin)
        /\ Len(out) = 2 + EntryCount(stdin)
        /\ (pc = "FAILED" => count < Threshold)

C8_Witness ==
    /\ pc = "FAILED"
    /\ Len(stdin) >= 3
    /\ Len(out) >= 4

\* C9: a run that has exited is in DONE with status 0 or in FAILED with status
\* 1 by the count assertion, and in no other state.
C9_TerminalStates ==
    Exited =>
        \/ pc = "DONE" /\ exitcode = {0}
        \/ pc = "FAILED" /\ exitcode = {1} /\ count < Threshold

\* C10: at the head of the loop and at the assertion, count is the number of
\* symbol lines written; count never decreases, and a step that writes a line
\* writes one line and adds one to count.
C10_CountMatchesEmission ==
    /\ [](pc \in {"READING", "DONE", "FAILED"} => count = Len(out) - 2)
    /\ [][/\ count' \in {count, count + 1}
          /\ (out' # out => Len(out') = Len(out) + 1 /\ count' = count + 1)]_vars

C10_Witness ==
    /\ pc = "READING"
    /\ count >= 2
    /\ pos > count

====
